---- MODULE Spec2Model ----
(***************************************************************************)
(* Ledger of debit-card accounts (mini-one): the Transaction and DebitCard *)
(* models of src/lib/storage/models/debitCard.js, the settlement job       *)
(* validatePending, the interest job addBalanceInterest and the request    *)
(* handlers of src/lib/routes/transactions.js that load a document and     *)
(* call a method on it.                                                    *)
(*                                                                         *)
(* Amounts are integers counting thousandths of a currency unit, so that   *)
(* "at most 2 decimals" is a real test (the amount is a multiple of 10).   *)
(* Time is counted in days.  A transaction's _id is its index in txs and   *)
(* its date is its creation order (new Date() at creation).                *)
(***************************************************************************)
EXTENDS Integers, Sequences, FiniteSets, TLC

\* ------------------------------------------------------------------ bounds
MaxTx == 3
MaxTime == 7
MaxAudit == 2
\* how far beyond MaxTx the scheduled jobs may take the ledger
MaxStaged == 1

\* --------------------------------------------------------------- constants
TRANSACTION_TYPES == {"debit", "withdrawal"}
TRANSACTION_DEBIT_SUBTYPES == {"credit", "refund", "interest", "cashback"}
TRANSACTION_WITHDRAWAL_SUBTYPES == {"purchase", "fee", "transfer"}
TRANSACTION_STATUSES == {"pending", "completed", "failed", "canceled"}
CASHBACK_VENDERS == {"WLMRT", "AMZN", "APPL"}
\* 0.01, as a percentage
CASHBACK_RATE == 1
\* 0.01, as a percentage
INTEREST_RATE == 1
\* -100 currency units, in thousandths
MAX_NEGATIVE_BALANCE == -100000
\* 5 * 24 * 60 * 60 * 1000 ms, in days
FIVE_DAYS == 5
\* amount: -10 of the overdraft fee, in thousandths
OVERDRAFT_FEE == -10000

\* The accounts; DebitCard._user is unique, so owner and account are 1:1.
Cards == {"c1", "c2"}

UserOf(c) == IF c = "c1" THEN "u1" ELSE "u2"

\* ----------------------------------------------------------- JavaScript
\* Values of the expressions the code evaluates on possibly missing fields.
JsNum(n) == [t |-> "number", v |-> n]

JsUndefined == [t |-> "undefined", v |-> 0]

JsNaN == [t |-> "NaN", v |-> 0]

\* obj.f : undefined when the object has no property f
JsGet(obj, f) == IF f \in DOMAIN obj THEN JsNum(obj[f]) ELSE JsUndefined

\* a + b on numbers and undefined
JsAdd(a, b) == IF a.t = "number" /\ b.t = "number" THEN JsNum(a.v + b.v) ELSE JsNaN

\* a < b : false as soon as one side is NaN
JsLess(a, b) == a.t = "number" /\ b.t = "number" /\ a.v < b.v

\* Math.round(x * 100) / 100 on an amount in thousandths (halves round up)
Round2(m) == ((m + 5) \div 10) * 10

\* Math.round(x * rate * 100) / 100, rate given as a percentage
RoundRate(m, pct) == ((m * pct + 500) \div 1000) * 10

Abs(m) == IF m < 0 THEN 0 - m ELSE m

\* String.prototype.toUpperCase on the vendor names in use
ToUpperCase(v) ==
  CASE v = "amzn" -> "AMZN"
    [] v = "shop" -> "SHOP"
    [] OTHER -> v

RECURSIVE SumAmounts(_, _)
SumAmounts(s, ids) ==
  IF ids = {} THEN 0
  ELSE LET i == CHOOSE x \in ids : TRUE
       IN s[i].amount + SumAmounts(s, ids \ {i})

\* ------------------------------------------------------------------ state
VARIABLES
  txs,    \* the Transaction collection, in insertion order
  cards,  \* the DebitCard collection: active, lastOverdraftFee, auditLog;
          \* feeAt is history, the date of the account's newest fee transaction
  now,    \* the clock (days); 0 is never a time
  doc,    \* the Transaction document a request handler has loaded
  vp,     \* the invocations of validatePending, by run
  abi,    \* the cursor and the staged documents of addBalanceInterest
  res     \* outcome of the last operation or step

vars == <<txs, cards, now, doc, vp, abi, res>>

NoDoc == [id |-> 0, status |-> "none"]

\* no outcome to report
NoRes == [op |-> "none"]

\* the invocations of validatePending that may be in progress at once
Runs == {1, 2}

\* the only invocation, where the scheduler's runs do not overlap
OneRun == {1}

\* an invocation that is not running.  lastOverdraftFee: 0 stands for "not
\* set"; tried, unwritten, skipped and fees record what the invocation has
\* done: the transactions its loop has taken, those whose updateOne failed,
\* the accounts whose balances failed and the accounts it has charged a fee;
\* solvent, start and persisted record what it met and wrote: the accounts
\* whose completed balance was not below MAX_NEGATIVE_BALANCE when it began,
\* the balance read for the current group, and the transactions whose
\* completed status it has stored.
VpIdle ==
  [pc |-> "idle", remaining |-> {}, groups |-> [c \in Cards |-> <<>>],
   snap |-> {}, card |-> "c1",
   debitCard |-> [id |-> "c1", active |-> TRUE, lastOverdraftFee |-> 0],
   debitBalance |-> [currentBalance |-> 0, pendingBalance |-> 0, finalBalance |-> 0],
   idx |-> 0, tried |-> {}, unwritten |-> {}, skipped |-> {}, fees |-> {},
   solvent |-> {}, start |-> 0, persisted |-> {}]

\* no interest job in progress
AbiIdle == [pc |-> "idle", at |-> <<>>, staged |-> <<>>]

Init ==
  /\ txs = <<>>
  /\ cards = [c \in Cards |-> [active |-> TRUE, lastOverdraftFee |-> 0, auditLog |-> <<>>,
                                feeAt |-> 0]]
  /\ now = 1
  /\ doc = NoDoc
  /\ vp = [r \in Runs |-> VpIdle]
  /\ abi = AbiIdle
  /\ res = NoRes

\* -------------------------------------------------------------- DebitCard
\* storage.model('DebitCard').findOne: the document as persisted
NoCard == [id |-> "none", active |-> FALSE, lastOverdraftFee |-> 0]

FindCard(c) ==
  IF c \in Cards
  THEN [id |-> c, active |-> cards[c].active, lastOverdraftFee |-> cards[c].lastOverdraftFee]
  ELSE NoCard

TxOfCard(s, c) == {i \in DOMAIN s : s[i].card = c}

WithStatus(s, ids, st) == {i \in ids : s[i].status = st}

\* DebitCard.methods.getBalances: the $match/$group aggregation returns no
\* row for an account without transactions, and totals[0] is then undefined.
getBalances(c) ==
  LET matched == TxOfCard(txs, c)
      completed == SumAmounts(txs, WithStatus(txs, matched, "completed"))
      pending == SumAmounts(txs, WithStatus(txs, matched, "pending"))
  IN IF matched = {}
     THEN [code |-> 500, currentBalance |-> 0, pendingBalance |-> 0, finalBalance |-> 0]
     ELSE [code |-> 200, currentBalance |-> completed, pendingBalance |-> pending,
           finalBalance |-> completed + pending]

\* ------------------------------------------------------------ Transaction
\* amount test of create: typeof number, sign by type, at most 2 decimals
ValidAmount(type, amount) ==
  IF type = "debit"
  THEN ~(amount <= 0 \/ Round2(amount) # amount)
  ELSE ~(amount >= 0 \/ Round2(amount) # amount)

ValidSubtype(type, subtype) ==
  IF type = "debit"
  THEN subtype \in TRANSACTION_DEBIT_SUBTYPES
  ELSE subtype \in TRANSACTION_WITHDRAWAL_SUBTYPES

\* the schema's validation on save: vender is a required string
SchemaValid(t) == t.vender # ""

\* the vendor's type is not tested
ParamsValidAnyVender(type, subtype, amountType, amount, venderType, descriptionType) ==
  /\ type \in TRANSACTION_TYPES
  /\ ValidSubtype(type, subtype)
  /\ ~(amountType # "number" \/ ~ValidAmount(type, amount))
  /\ ~(descriptionType # "undefined" /\ descriptionType # "string")

\* the tests of lines 395-408 on the parameters; a type is what typeof
\* gives ("undefined" for a parameter that is not passed)
ParamsValid(type, subtype, amountType, amount, venderType, descriptionType) ==
  /\ type \in TRANSACTION_TYPES
  /\ ValidSubtype(type, subtype)
  /\ ~(amountType # "number" \/ ~ValidAmount(type, amount))
  /\ ~(venderType # "string")
  /\ ~(descriptionType # "undefined" /\ descriptionType # "string")

\* an account that exists is accepted whether it is active or not
createAnyAccount(type, subtype, amount, vender, ref, card, skipSave) ==
  IF ~ParamsValid(type, subtype, "number", amount, "string", "string") THEN [code |-> 400]
  ELSE IF card.id = "none" THEN [code |-> 400]
  ELSE LET t == [type |-> type, subtype |-> subtype, amount |-> amount,
                 status |-> "pending", vender |-> vender, card |-> card.id,
                 user |-> UserOf(card.id), ref |-> ref]
       IN IF ~skipSave /\ ~SchemaValid(t) THEN [code |-> 500]
          ELSE [code |-> 200, tx |-> t]

\* Transaction.statics.create as the model's own methods call it: amount is a
\* number, vender and description are strings.  card is the resolved
\* DebitCard document (or NoCard); the result is the error code or the new
\* document.
create(type, subtype, amount, vender, ref, card, skipSave) ==
  IF ~ParamsValid(type, subtype, "number", amount, "string", "string") THEN [code |-> 400]
  ELSE IF card.id = "none" \/ ~card.active THEN [code |-> 400]
  ELSE LET t == [type |-> type, subtype |-> subtype, amount |-> amount,
                 status |-> "pending", vender |-> vender, card |-> card.id,
                 user |-> UserOf(card.id), ref |-> ref]
       IN IF ~skipSave /\ ~SchemaValid(t) THEN [code |-> 500]
          ELSE [code |-> 200, tx |-> t]

\* Transaction.statics.create(req.body): the parameters are of any type and
\* the account is looked up by its number (line 413-414)
createBody(body) ==
  IF ~ParamsValid(body.type, body.subtype, body.amountType, body.amount,
                  body.venderType, body.descriptionType) THEN [code |-> 400]
  ELSE IF body.accountNumberType # "string" THEN [code |-> 400]
  ELSE create(body.type, body.subtype, body.amount, body.vender, 0,
              FindCard(body.accountNumber), body.skipSave)

\* a purchase of any status
AnyPurchase(t) ==
  ~(t.type # "withdrawal" \/ t.subtype # "purchase")

\* the precondition shared by cashback and refund
CompletedPurchase(t) ==
  ~(t.status # "completed" \/ t.type # "withdrawal" \/ t.subtype # "purchase")

\* the cashback cut to 2 decimals instead of rounded
CashbackAmountTruncated(amount) == ((Abs(amount) * CASHBACK_RATE) \div 1000) * 10

\* round(|amount| * CASHBACK_RATE, 2)
CashbackAmount(amount) == RoundRate(Abs(amount), CASHBACK_RATE)

\* Transaction.statics.createCashbackTransaction({ transaction }): src is the
\* in-memory source document, id its _id.  The account is passed by id, so
\* create looks it up again.
createCashbackTransaction(src, id) ==
  IF src.amount = 0 THEN [code |-> 400]
  ELSE IF ~CompletedPurchase(src) THEN [code |-> 400]
  ELSE LET r == create("debit", "cashback", CashbackAmount(src.amount), "ONE",
                       id, FindCard(src.card), TRUE)
       IN IF r.code # 200 THEN [code |-> r.code]
          ELSE [code |-> 200, tx |-> [r.tx EXCEPT !.status = "completed"]]

\* the fee is saved with the status create gave it
createOverdraftFeeTransactionPending(debitCard) ==
  IF debitCard.id = "none" THEN [code |-> 400]
  ELSE create("withdrawal", "fee", OVERDRAFT_FEE, "ONE", 0, debitCard, TRUE)

\* Transaction.statics.createOverdraftFeeTransaction({ debitCard }): the
\* account is the caller's in-memory document, used by create as it is.
createOverdraftFeeTransaction(debitCard) ==
  IF debitCard.id = "none" THEN [code |-> 400]
  ELSE LET r == create("withdrawal", "fee", OVERDRAFT_FEE, "ONE", 0, debitCard, TRUE)
       IN IF r.code # 200 THEN [code |-> r.code]
          ELSE [code |-> 200, tx |-> [r.tx EXCEPT !.status = "completed"]]

\* the refund carries the source's amount with its sign
createRefundTransactionSigned(src, id) ==
  IF src.amount = 0 \/ src.vender = "" THEN [code |-> 400]
  ELSE IF ~CompletedPurchase(src) THEN [code |-> 400]
  ELSE create("debit", "refund", src.amount, src.vender, id,
              FindCard(src.card), FALSE)

\* Transaction.methods.createRefundTransaction on the in-memory document src
createRefundTransaction(src, id) ==
  IF src.amount = 0 \/ src.vender = "" THEN [code |-> 400]
  ELSE IF ~CompletedPurchase(src) THEN [code |-> 400]
  ELSE create("debit", "refund", Abs(src.amount), src.vender, id,
              FindCard(src.card), FALSE)

\* only a completed transaction is refused
CancelableUnlessCompleted(status) == ~(status = "completed")

\* Transaction.methods.cancel: the test on this.status
Cancelable(status) == ~(status # "pending")

\* ------------------------------------------------------------- operations
\* The scheduled jobs and the handlers that do not hold a loaded transaction
\* run one after the other; a handler that loads a transaction and then
\* calls a method on it is interleaved with the steps of validatePending,
\* and a run of validatePending with the events of the interest job's cursor.
NoRun == (\A r \in Runs : vp[r].pc = "idle") /\ abi.pc = "idle" /\ doc = NoDoc

\* the accounts the activation requests are sent for
Switched == {"c1"}

\* The request bodies POST /transactions is called with.  A field whose
\* type is not the expected one keeps a value that no test reads.
Body(type, subtype, amountT, amount, venderT, vender, descriptionT, accountT, account) ==
  [type |-> type, subtype |-> subtype, amountType |-> amountT, amount |-> amount,
   venderType |-> venderT, vender |-> vender, descriptionType |-> descriptionT,
   accountNumberType |-> accountT, accountNumber |-> account, skipSave |-> FALSE]

\* the same body with skipSave: true, which create takes from its argument
Deferred(body) == [body EXCEPT !.skipSave = TRUE]

\* a body with a number, a vendor name, no description and an account number
Req(type, subtype, amount, vender, accountNumber) ==
  Body(type, subtype, "number", amount, "string", vender, "undefined",
       "string", accountNumber)

SettleRequests ==
  { Req("debit", "credit", 100000, "amzn", "c1"),
    Req("withdrawal", "purchase", -150000, "amzn", "c1"),
    Req("withdrawal", "purchase", -200, "AMZN", "c1"),
    Req("withdrawal", "purchase", -200, "SHOP", "c2"),
    Req("withdrawal", "transfer", -200, "AMZN", "c2") }

CancelRequests ==
  { Req("debit", "credit", 100000, "SHOP", "c1"),
    Req("withdrawal", "purchase", -200, "SHOP", "c1") }

LedgerRequests ==
  { Req("debit", "credit", 200, "SHOP", "c1"),
    Req("withdrawal", "purchase", -200, "SHOP", "c1"),
    Req("debit", "credit", -200, "SHOP", "c1"),
    Req("withdrawal", "purchase", -205, "SHOP", "c1"),
    Req("withdrawal", "credit", -200, "SHOP", "c1"),
    Req("deposit", "credit", 200, "SHOP", "c1"),
    Req("debit", "credit", 200, "SHOP", "c9") }

\* bodies that differ from a valid one in one parameter
CreateRequests ==
  { Req("debit", "credit", 200, "SHOP", "c1"),
    Body("withdrawal", "purchase", "number", -200, "string", "SHOP", "string", "string", "c1"),
    Req("deposit", "credit", 200, "SHOP", "c1"),
    Req("debit", "purchase", 200, "SHOP", "c1"),
    Req("withdrawal", "refund", -200, "SHOP", "c1"),
    Body("debit", "credit", "string", 200, "string", "SHOP", "undefined", "string", "c1"),
    Req("debit", "credit", 0, "SHOP", "c1"),
    Req("debit", "credit", -200, "SHOP", "c1"),
    Req("withdrawal", "purchase", 200, "SHOP", "c1"),
    Req("debit", "credit", 205, "SHOP", "c1"),
    Body("debit", "credit", "number", 200, "number", "SHOP", "undefined", "string", "c1"),
    Body("debit", "credit", "number", 200, "string", "SHOP", "number", "string", "c1"),
    Body("debit", "credit", "number", 200, "string", "SHOP", "undefined", "undefined", "c1"),
    Req("debit", "credit", 200, "", "c1"),
    Deferred(Req("debit", "credit", 200, "SHOP", "c1")),
    Deferred(Req("debit", "credit", 200, "", "c1")) }

\* purchases whose cashback rounds to 0 and to 0.03, and an unknown account
DerivedRequests ==
  { Req("withdrawal", "purchase", -200, "SHOP", "c1"),
    Req("withdrawal", "purchase", -2600, "SHOP", "c1"),
    Req("withdrawal", "purchase", -200, "SHOP", "c9") }

\* credits that earn interest of 1.00 and of 0.06, and a purchase that takes
\* the first account's total below zero
JobRequests ==
  { Req("debit", "credit", 100000, "SHOP", "c1"),
    Req("debit", "credit", 5600, "SHOP", "c2"),
    Req("withdrawal", "purchase", -150000, "SHOP", "c1") }

AccountNumbers == Cards \cup {"c9"}

\* The request bodies POST /transactions/transfer is called with.
Transfer(sender, receiver, amount) ==
  [senderAccountNumber |-> sender, receiverAccountNumber |-> receiver, amount |-> amount]

TransferRequests ==
  { Transfer("c1", "c2", 200),
    Transfer("c2", "c1", 200),
    Transfer("c1", "c1", 200),
    Transfer("c1", "c2", 205),
    Transfer("c1", "c2", 0),
    Transfer("c9", "c2", 200),
    Transfer("c1", "c9", 200) }

JobTransfers == { Transfer("c1", "c2", 200) }

\* skipSave is ignored: the transaction is saved whenever it is returned
CreateAlwaysSaves(req) ==
  LET r == createBody(req)
  IN /\ NoRun
     /\ r.code = 200 => Len(txs) < MaxTx
     /\ txs' = IF r.code = 200 THEN Append(txs, r.tx) ELSE txs
     /\ res' = IF r.code = 200
               THEN [op |-> "create", code |-> r.code, req |-> req,
                     inserted |-> Len(txs') - Len(txs), tx |-> r.tx]
               ELSE [op |-> "create", code |-> r.code, req |-> req, inserted |-> 0]
     /\ UNCHANGED <<cards, now, doc, vp, abi>>

\* POST /transactions -> Transaction.create(req.body) by account number: the
\* transaction is returned (tx) and, unless the body asks for skipSave, saved
\* by line 421
Create(req) ==
  LET r == createBody(req)
      saved == r.code = 200 /\ ~req.skipSave
  IN /\ NoRun
     /\ saved => Len(txs) < MaxTx
     /\ txs' = IF saved THEN Append(txs, r.tx) ELSE txs
     /\ res' = IF r.code = 200
               THEN [op |-> "create", code |-> r.code, req |-> req,
                     inserted |-> Len(txs') - Len(txs), tx |-> r.tx]
               ELSE [op |-> "create", code |-> r.code, req |-> req, inserted |-> 0]
     /\ UNCHANGED <<cards, now, doc, vp, abi>>

\* which save() of a transfer the storage rejects: none, the sender's, the receiver's
SaveFaults == {0, 1, 2}

\* a transfer of the sender's whole final balance is refused
createTransferTransactionAtMost(sender, receiver, amount, fault) ==
  LET senderDebitCard == FindCard(sender)
      receiverDebitCard == FindCard(receiver)
      senderBalance == getBalances(sender)
      st == create("withdrawal", "transfer", 0 - amount, "SELF", 0, senderDebitCard, FALSE)
      rt == create("debit", "credit", amount, "SELF", 0, receiverDebitCard, FALSE)
  IN IF amount <= 0 THEN [code |-> 400, new |-> <<>>]
     ELSE IF senderDebitCard.id = "none" \/ ~senderDebitCard.active THEN [code |-> 400, new |-> <<>>]
     ELSE IF receiverDebitCard.id = "none" \/ ~receiverDebitCard.active THEN [code |-> 400, new |-> <<>>]
     ELSE IF senderBalance.code # 200 THEN [code |-> senderBalance.code, new |-> <<>>]
     ELSE IF senderBalance.finalBalance <= amount THEN [code |-> 400, new |-> <<>>]
     ELSE IF st.code # 200 THEN [code |-> st.code, new |-> <<>>]
     ELSE IF fault = 1 THEN [code |-> 500, new |-> <<>>]
     ELSE IF rt.code # 200 THEN [code |-> rt.code, new |-> <<st.tx>>]
     ELSE IF fault = 2 THEN [code |-> 500, new |-> <<st.tx>>]
     ELSE [code |-> 200, new |-> <<st.tx, rt.tx>>]

\* a failed save of the receiver's transaction is swallowed
createTransferTransactionSwallow(sender, receiver, amount, fault) ==
  LET senderDebitCard == FindCard(sender)
      receiverDebitCard == FindCard(receiver)
      senderBalance == getBalances(sender)
      st == create("withdrawal", "transfer", 0 - amount, "SELF", 0, senderDebitCard, FALSE)
      rt == create("debit", "credit", amount, "SELF", 0, receiverDebitCard, FALSE)
  IN IF amount <= 0 THEN [code |-> 400, new |-> <<>>]
     ELSE IF senderDebitCard.id = "none" \/ ~senderDebitCard.active THEN [code |-> 400, new |-> <<>>]
     ELSE IF receiverDebitCard.id = "none" \/ ~receiverDebitCard.active THEN [code |-> 400, new |-> <<>>]
     ELSE IF senderBalance.code # 200 THEN [code |-> senderBalance.code, new |-> <<>>]
     ELSE IF senderBalance.finalBalance < amount THEN [code |-> 400, new |-> <<>>]
     ELSE IF st.code # 200 THEN [code |-> st.code, new |-> <<>>]
     ELSE IF fault = 1 THEN [code |-> 500, new |-> <<>>]
     ELSE IF rt.code # 200 THEN [code |-> 200, new |-> <<st.tx>>]
     ELSE IF fault = 2 THEN [code |-> 200, new |-> <<st.tx>>]
     ELSE [code |-> 200, new |-> <<st.tx, rt.tx>>]

\* Transaction.statics.createTransferTransaction; an error of a save() is
\* rethrown by create as a 500 and again by the catch of line 483.  new is
\* what has been persisted when the call returns or throws.
createTransferTransaction(sender, receiver, amount, fault) ==
  LET senderDebitCard == FindCard(sender)
      receiverDebitCard == FindCard(receiver)
      senderBalance == getBalances(sender)
      st == create("withdrawal", "transfer", 0 - amount, "SELF", 0, senderDebitCard, FALSE)
      rt == create("debit", "credit", amount, "SELF", 0, receiverDebitCard, FALSE)
  IN IF amount <= 0 THEN [code |-> 400, new |-> <<>>]
     ELSE IF senderDebitCard.id = "none" \/ ~senderDebitCard.active THEN [code |-> 400, new |-> <<>>]
     ELSE IF receiverDebitCard.id = "none" \/ ~receiverDebitCard.active THEN [code |-> 400, new |-> <<>>]
     ELSE IF senderBalance.code # 200 THEN [code |-> senderBalance.code, new |-> <<>>]
     ELSE IF senderBalance.finalBalance < amount THEN [code |-> 400, new |-> <<>>]
     ELSE IF st.code # 200 THEN [code |-> st.code, new |-> <<>>]
     ELSE IF fault = 1 THEN [code |-> 500, new |-> <<>>]
     ELSE IF rt.code # 200 THEN [code |-> rt.code, new |-> <<st.tx>>]
     ELSE IF fault = 2 THEN [code |-> 500, new |-> <<st.tx>>]
     ELSE [code |-> 200, new |-> <<st.tx, rt.tx>>]

\* POST /transactions/transfer
CreateTransfer(req, fault) ==
  LET r == createTransferTransaction(req.senderAccountNumber,
                                     req.receiverAccountNumber, req.amount, fault)
  IN /\ NoRun
     /\ Len(txs) + Len(r.new) <= MaxTx
     /\ txs' = txs \o r.new
     /\ res' = [op |-> "transfer", code |-> r.code, req |-> req,
                inserted |-> Len(txs') - Len(txs)]
     /\ UNCHANGED <<cards, now, doc, vp, abi>>

\* a direct call of createOverdraftFeeTransaction with a loaded account (or
\* none): the fee is saved as completed, then the account's lastOverdraftFee
CreateOverdraftFee(c) ==
  LET r == createOverdraftFeeTransaction(FindCard(c))
  IN /\ NoRun
     /\ r.code = 200 => Len(txs) < MaxTx
     /\ txs' = IF r.code = 200 THEN Append(txs, r.tx) ELSE txs
     /\ cards' = IF r.code = 200
                 THEN [cards EXCEPT ![c].lastOverdraftFee = now, ![c].feeAt = now]
                 ELSE cards
     /\ res' = [op |-> "overdraftFee", code |-> r.code, card |-> c,
                inserted |-> Len(txs') - Len(txs)]
     /\ UNCHANGED <<now, doc, vp, abi>>

\* findTransactions({ transactionId }) of the refund and cancel handlers:
\* the handler now holds the document as it was persisted at this moment
\* (no request is taken while the interest job's cursor is open)
LoadTx(id) ==
  /\ doc = NoDoc
  /\ abi.pc = "idle"
  /\ id \in DOMAIN txs
  /\ doc' = [id |-> id, status |-> txs[id].status]
  /\ res' = NoRes
  /\ UNCHANGED <<txs, cards, now, vp, abi>>

\* the loaded document: the persisted fields, with the status as loaded
Loaded == [txs[doc.id] EXCEPT !.status = doc.status]

\* transaction.cancel() on the loaded document; save() writes the status
Cancel ==
  /\ doc # NoDoc
  /\ IF Cancelable(doc.status)
     THEN /\ txs' = [txs EXCEPT ![doc.id].status = "canceled"]
          /\ res' = [op |-> "cancel", code |-> 200, id |-> doc.id,
                     was |-> doc.status, stored |-> txs[doc.id].status]
     ELSE /\ txs' = txs
          /\ res' = [op |-> "cancel", code |-> 400, id |-> doc.id,
                     was |-> doc.status, stored |-> txs[doc.id].status]
  /\ doc' = NoDoc
  /\ UNCHANGED <<cards, now, vp, abi>>

\* transaction.createRefundTransaction() on the loaded document
Refund ==
  /\ doc # NoDoc
  /\ LET r == createRefundTransaction(Loaded, doc.id)
     IN /\ r.code = 200 => Len(txs) < MaxTx
        /\ txs' = IF r.code = 200 THEN Append(txs, r.tx) ELSE txs
        /\ res' = [op |-> "refund", code |-> r.code, id |-> doc.id, src |-> Loaded,
                   inserted |-> Len(txs') - Len(txs)]
  /\ doc' = NoDoc
  /\ UNCHANGED <<cards, now, vp, abi>>

\* a direct call of createCashbackTransaction({ transaction }) with the
\* loaded document; the cashback is saved as completed
Cashback ==
  /\ doc # NoDoc
  /\ LET r == createCashbackTransaction(Loaded, doc.id)
     IN /\ r.code = 200 => Len(txs) < MaxTx
        /\ txs' = IF r.code = 200 THEN Append(txs, r.tx) ELSE txs
        /\ res' = [op |-> "cashback", code |-> r.code, id |-> doc.id, src |-> Loaded,
                   inserted |-> Len(txs') - Len(txs)]
  /\ doc' = NoDoc
  /\ UNCHANGED <<cards, now, vp, abi>>

\* the plugin's auditSave: the entry pushed onto the auditLog (line 25)
AuditEntry(time, performedBy, action) ==
  [timestamp |-> time, performedBy |-> performedBy, action |-> action]

\* the early return is missing: every call writes an entry
SetActiveAlways(c) ==
  /\ NoRun
  /\ Len(cards[c].auditLog) < MaxAudit
  /\ cards' = [cards EXCEPT ![c].active = TRUE,
                            ![c].auditLog = Append(@, AuditEntry(now, "user", "setActive"))]
  /\ res' = [op |-> "setActive", card |-> c, was |-> cards[c].active]
  /\ UNCHANGED <<txs, now, doc, vp, abi>>

\* PUT /debitcards/:debitCardId -> DebitCard.methods.setActive / setInactive
\* with the plugin's auditSave
SetActive(c) ==
  /\ NoRun
  /\ IF cards[c].active
     THEN cards' = cards
     ELSE /\ Len(cards[c].auditLog) < MaxAudit
          /\ cards' = [cards EXCEPT ![c].active = TRUE,
                                    ![c].auditLog =
                                       Append(@, AuditEntry(now, "user", "setActive"))]
  /\ res' = [op |-> "setActive", card |-> c, was |-> cards[c].active]
  /\ UNCHANGED <<txs, now, doc, vp, abi>>

SetInactive(c) ==
  /\ NoRun
  /\ IF ~cards[c].active
     THEN cards' = cards
     ELSE /\ Len(cards[c].auditLog) < MaxAudit
          /\ cards' = [cards EXCEPT ![c].active = FALSE,
                                    ![c].auditLog =
                                       Append(@, AuditEntry(now, "user", "setInactive"))]
  /\ res' = [op |-> "setInactive", card |-> c, was |-> cards[c].active]
  /\ UNCHANGED <<txs, now, doc, vp, abi>>

\* GET /debitcards/balances/:id -> debitCard.getBalances()
GetBalances(c) ==
  /\ NoRun
  /\ res' = [op |-> "getBalances", card |-> c, balances |-> getBalances(c)]
  /\ UNCHANGED <<txs, cards, now, doc, vp, abi>>

\* time passes
Tick ==
  /\ NoRun
  /\ now + 3 <= MaxTime
  /\ now' = now + 3
  /\ res' = NoRes
  /\ UNCHANGED <<txs, cards, doc, vp, abi>>

\* ids in ascending order ($sort: { date: 1 })
RECURSIVE SortByDate(_)
SortByDate(ids) ==
  IF ids = {} THEN <<>>
  ELSE LET m == CHOOSE x \in ids : \A y \in ids : x <= y
       IN <<m>> \o SortByDate(ids \ {m})

\* ------------------------------------------------------- findTransactions
\* A query as findTransactions reads it.  transactionId: 0 for a missing one,
\* -1 for a string that is not an ObjectId, else an ObjectId (of a stored
\* transaction or not).  startDate and endDate: 0 for a missing one, -1 for a
\* string that is no date, else an instant, counted in transactions created
\* before it plus one (the _id the code compares with embeds the creation
\* time).  debitCardId: "" for a missing one, "bad" for a string that is not
\* an ObjectId.  Every other filter: "" for a missing one.
Query(transactionId, startDate, endDate, debitCardId, accountNumber, status) ==
  [transactionId |-> transactionId, startDate |-> startDate, endDate |-> endDate,
   debitCardId |-> debitCardId, accountNumber |-> accountNumber, status |-> status]

\* the filters of lines 595-617 that passed their tests
Matches(q, t, id) ==
  /\ q.startDate # 0 => id >= q.startDate
  /\ q.endDate # 0 => id <= q.endDate
  /\ q.debitCardId # "" => t.card = q.debitCardId
  /\ q.accountNumber # "" => t.card = q.accountNumber
  /\ q.status # "" => t.status = q.status

\* the filters are tested although a transactionId is given
findTransactionsFiltersFirst(q) ==
  IF q.startDate = -1 THEN [code |-> 400, results |-> <<>>]
  ELSE IF q.endDate = -1 THEN [code |-> 400, results |-> <<>>]
  ELSE IF q.startDate # 0 /\ q.endDate # 0 /\ q.startDate > q.endDate
    THEN [code |-> 400, results |-> <<>>]
  ELSE IF q.debitCardId # "" /\ q.accountNumber # "" THEN [code |-> 400, results |-> <<>>]
  ELSE IF q.debitCardId = "bad" THEN [code |-> 400, results |-> <<>>]
  ELSE IF q.transactionId # 0
    THEN IF q.transactionId = -1 THEN [code |-> 400, results |-> <<>>]
         ELSE [code |-> 200,
               results |-> IF q.transactionId \in DOMAIN txs
                           THEN <<q.transactionId>> ELSE <<>>]
  ELSE [code |-> 200,
        results |-> SortByDate({id \in DOMAIN txs : Matches(q, txs[id], id)})]

\* Transaction.statics.findTransactions: the ids of the transactions returned
findTransactions(q) ==
  IF q.transactionId # 0
  THEN IF q.transactionId = -1 THEN [code |-> 400, results |-> <<>>]
       ELSE [code |-> 200,
             results |-> IF q.transactionId \in DOMAIN txs
                         THEN <<q.transactionId>> ELSE <<>>]
  ELSE IF q.startDate = -1 THEN [code |-> 400, results |-> <<>>]
  ELSE IF q.endDate = -1 THEN [code |-> 400, results |-> <<>>]
  ELSE IF q.startDate # 0 /\ q.endDate # 0 /\ q.startDate > q.endDate
    THEN [code |-> 400, results |-> <<>>]
  ELSE IF q.debitCardId # "" /\ q.accountNumber # "" THEN [code |-> 400, results |-> <<>>]
  ELSE IF q.debitCardId = "bad" THEN [code |-> 400, results |-> <<>>]
  ELSE [code |-> 200,
        results |-> SortByDate({id \in DOMAIN txs : Matches(q, txs[id], id)})]

\* The queries GET /transactions and GET /transactions/:transactionId are
\* called with.
FindQueries ==
  { Query(1, 0, 0, "", "", ""),
    Query(2, -1, 1, "c1", "c2", "failed"),
    Query(3, 2, 1, "bad", "", ""),
    Query(-1, 0, 0, "", "", ""),
    Query(0, 0, 0, "", "", ""),
    Query(0, 0, 0, "c1", "c2", ""),
    Query(0, 0, 0, "c1", "c1", ""),
    Query(0, -1, 0, "", "", ""),
    Query(0, 0, -1, "", "", ""),
    Query(0, 2, 1, "", "", ""),
    Query(0, 1, 2, "", "", ""),
    Query(0, 2, 0, "", "c2", ""),
    Query(0, 0, 0, "bad", "", ""),
    Query(0, 0, 0, "c1", "", "pending"),
    Query(0, 0, 0, "", "c9", "") }

\* GET /transactions -> findTransactions(req.query)
FindTransactions(q) ==
  /\ NoRun
  /\ LET r == findTransactions(q)
     IN res' = [op |-> "findTransactions", code |-> r.code, q |-> q,
                results |-> r.results]
  /\ UNCHANGED <<txs, cards, now, doc, vp, abi>>

\* ------------------------------------------------------- validatePending
\* the completed transactions and their sum for account c (for the interest
\* job: { $match: completed }, { $group: _user, $sum amount })
Completed(s) == {i \in DOMAIN s : s[i].status = "completed"}

TotalBalance(s, c) == SumAmounts(s, Completed(s) \cap TxOfCard(s, c))

\* the accounts whose completed balance is not below the floor
Solvent(s) == {c \in Cards : TotalBalance(s, c) >= MAX_NEGATIVE_BALANCE}

Pending(s) == {i \in DOMAIN s : s[i].status = "pending"}

\* { $match: pending }, { $sort: date }, { $group: _debitCard, $push }
GroupByCard(s) == [c \in Cards |-> SortByDate(Pending(s) \cap TxOfCard(s, c))]

\* the vendor compared as it is written
IsCashbackVenderExact(vender) == vender \in CASHBACK_VENDERS

IsCashbackVender(vender) == ToUpperCase(vender) \in CASHBACK_VENDERS

\* line 755: debitBalance.currentbalance + transaction.amount < MAX_NEGATIVE_BALANCE
BelowFloor(debitBalance, amount) ==
  JsLess(JsAdd(JsGet(debitBalance, "currentbalance"), JsNum(amount)),
         JsNum(MAX_NEGATIVE_BALANCE))

\* only withdrawals are decided: any other transaction keeps its status
SettleWithdrawalsOnly(debitBalance, t) ==
  IF t.type = "withdrawal"
  THEN IF BelowFloor(debitBalance, t.amount) THEN "failed" ELSE "completed"
  ELSE t.status

\* the status the loop gives a transaction
Settle(debitBalance, t) ==
  IF t.type = "withdrawal"
  THEN IF BelowFloor(debitBalance, t.amount) THEN "failed" ELSE "completed"
  ELSE "completed"

\* line 779: the overdraft test on the in-memory balance and account
OverdraftDue(debitBalance, debitCard, time) ==
  /\ debitBalance.currentBalance < 0
  /\ debitCard.lastOverdraftFee # 0
  /\ time - debitCard.lastOverdraftFee > FIVE_DAYS

\* the early return is missing: the aggregation runs on an empty match
VPStartNoShortCircuit(r) ==
  /\ vp[r].pc = "idle"
  /\ vp' = [vp EXCEPT ![r].pc = "next",
                       ![r].groups = GroupByCard(txs),
                       ![r].remaining = {c \in Cards : GroupByCard(txs)[c] # <<>>},
                       ![r].snap = Pending(txs),
                              ![r].solvent = Solvent(txs)]
  /\ res' = IF Pending(txs) = {}
            THEN [op |-> "validatePending", code |-> 200, early |-> TRUE, snap |-> {}]
            ELSE NoRes
  /\ UNCHANGED <<txs, cards, now, doc, abi>>

\* invocation r: countDocuments, then the early return or the grouping
\* aggregation
VPStart(r) ==
  /\ vp[r].pc = "idle"
  /\ IF Pending(txs) = {}
     THEN /\ vp' = vp
          /\ res' = [op |-> "validatePending", code |-> 200, early |-> TRUE, snap |-> {}]
     ELSE /\ vp' = [vp EXCEPT ![r].pc = "next",
                              ![r].groups = GroupByCard(txs),
                              ![r].remaining = {c \in Cards : GroupByCard(txs)[c] # <<>>},
                              ![r].snap = Pending(txs),
                              ![r].solvent = Solvent(txs)]
          /\ res' = NoRes
  /\ UNCHANGED <<txs, cards, now, doc, abi>>

\* a failed getBalances leaves debitBalance = {} and the group is processed
VPGroupBeginNoSkip(r, c, balanceFails) ==
  /\ vp[r].pc = "next"
  /\ c \in vp[r].remaining
  /\ LET b == getBalances(c)
         failed == balanceFails \/ b.code # 200
     IN vp' = [vp EXCEPT ![r].pc = "tx", ![r].card = c, ![r].remaining = @ \ {c},
                         ![r].debitCard = FindCard(c),
                         ![r].debitBalance =
                            IF failed
                            THEN [currentBalance |-> 0, pendingBalance |-> 0,
                                  finalBalance |-> 0]
                            ELSE [currentBalance |-> b.currentBalance,
                                  pendingBalance |-> b.pendingBalance,
                                  finalBalance |-> b.finalBalance],
                         ![r].skipped = IF failed THEN @ \cup {c} ELSE @,
                         ![r].start = IF failed THEN 0 ELSE b.currentBalance,
                         ![r].idx = 1]
  /\ res' = NoRes
  /\ UNCHANGED <<txs, cards, now, doc, abi>>

\* next group (in the aggregation's unspecified order): findOne, getBalances;
\* when getBalances throws (balanceFails: the storage rejects its
\* aggregation) the group is skipped by the continue of line 747
VPGroupBegin(r, c, balanceFails) ==
  /\ vp[r].pc = "next"
  /\ c \in vp[r].remaining
  /\ LET b == getBalances(c)
     IN IF balanceFails \/ b.code # 200
        THEN vp' = [vp EXCEPT ![r].remaining = @ \ {c}, ![r].skipped = @ \cup {c}]
        ELSE vp' = [vp EXCEPT ![r].pc = "tx", ![r].card = c, ![r].remaining = @ \ {c},
                              ![r].debitCard = FindCard(c),
                              ![r].debitBalance = [currentBalance |-> b.currentBalance,
                                                   pendingBalance |-> b.pendingBalance,
                                                   finalBalance |-> b.finalBalance],
                              ![r].start = b.currentBalance,
                              ![r].idx = 1]
  /\ res' = NoRes
  /\ UNCHANGED <<txs, cards, now, doc, abi>>

\* a failed updateOne ends the invocation with the error of line 789
VPSettleAbort(r, updateFails) ==
  /\ vp[r].pc = "tx"
  /\ vp[r].idx <= Len(vp[r].groups[vp[r].card])
  /\ LET id == vp[r].groups[vp[r].card][vp[r].idx]
         status == Settle(vp[r].debitBalance, txs[id])
         transaction == [txs[id] EXCEPT !.status = status]
         before == vp[r].debitBalance.currentBalance
         after == IF status = "completed" THEN before + transaction.amount ELSE before
         tryCashback == /\ transaction.type = "withdrawal"
                        /\ status = "completed"
                        /\ IsCashbackVender(transaction.vender)
         cb == createCashbackTransaction(transaction, id)
         thrown == tryCashback /\ cb.code # 200
         created == tryCashback /\ cb.code = 200
         updateFailed == ~thrown /\ updateFails
         updated == IF thrown \/ updateFails THEN txs ELSE [txs EXCEPT ![id].status = status]
     IN /\ created => Len(txs) < MaxTx
        /\ txs' = IF created THEN Append(updated, cb.tx) ELSE updated
        /\ IF updateFailed
           THEN /\ vp' = [vp EXCEPT ![r] = VpIdle]
                /\ res' = [op |-> "validatePending", code |-> 500, early |-> FALSE,
                           run |-> r, snap |-> vp[r].snap,
                           tried |-> vp[r].tried \cup {id},
                           unwritten |-> vp[r].unwritten \cup {id},
                           skipped |-> vp[r].skipped,
                           solvent |-> vp[r].solvent,
                           fees |-> vp[r].fees]
           ELSE /\ vp' = [vp EXCEPT ![r].debitBalance.currentBalance = after,
                                    ![r].idx = @ + 1, ![r].tried = @ \cup {id},
                                    ![r].persisted =
                                       IF ~thrown /\ status = "completed"
                                       THEN @ \cup {id} ELSE @]
                /\ res' = [op |-> "settle", run |-> r, id |-> id, status |-> status,
                           written |-> ~thrown, updateFailed |-> FALSE,
                           before |-> before, after |-> after,
                           cashback |-> IF created THEN "created"
                                        ELSE IF thrown THEN "failed" ELSE "none"]
  /\ UNCHANGED <<cards, now, doc, abi>>

\* one iteration of the inner loop: decide, cashback, updateOne; an error
\* thrown by the cashback skips the updateOne, and an error of the updateOne
\* itself (updateFails) leaves the status as it is stored (catch of line 772)
VPSettle(r, updateFails) ==
  /\ vp[r].pc = "tx"
  /\ vp[r].idx <= Len(vp[r].groups[vp[r].card])
  /\ LET id == vp[r].groups[vp[r].card][vp[r].idx]
         status == Settle(vp[r].debitBalance, txs[id])
         transaction == [txs[id] EXCEPT !.status = status]
         before == vp[r].debitBalance.currentBalance
         after == IF status = "completed" THEN before + transaction.amount ELSE before
         tryCashback == /\ transaction.type = "withdrawal"
                        /\ status = "completed"
                        /\ IsCashbackVender(transaction.vender)
         cb == createCashbackTransaction(transaction, id)
         thrown == tryCashback /\ cb.code # 200
         created == tryCashback /\ cb.code = 200
         updateFailed == ~thrown /\ updateFails
         updated == IF thrown \/ updateFails THEN txs ELSE [txs EXCEPT ![id].status = status]
     IN /\ created => Len(txs) < MaxTx
        /\ txs' = IF created THEN Append(updated, cb.tx) ELSE updated
        /\ vp' = [vp EXCEPT ![r].debitBalance.currentBalance = after,
                            ![r].idx = @ + 1, ![r].tried = @ \cup {id},
                            ![r].unwritten = IF updateFailed THEN @ \cup {id} ELSE @,
                            ![r].persisted =
                               IF ~thrown /\ ~updateFails /\ status = "completed"
                               THEN @ \cup {id} ELSE @]
        /\ res' = [op |-> "settle", run |-> r, id |-> id, status |-> status,
                   written |-> ~thrown /\ ~updateFails, updateFailed |-> updateFailed,
                   before |-> before, after |-> after,
                   cashback |-> IF created THEN "created"
                                ELSE IF thrown THEN "failed" ELSE "none"]
  /\ UNCHANGED <<cards, now, doc, abi>>

\* after the group's last transaction: the overdraft fee (lines 777-785).
\* The fee is saved before the account; when the account's save is rejected
\* (saveFails) the error is logged at line 783.  stored is the account's
\* lastOverdraftFee as persisted at this moment, actual what getBalances
\* would return as currentBalance, start and persisted what the run has read
\* and written for the group.
VPGroupEnd(r, saveFails) ==
  /\ vp[r].pc = "tx"
  /\ vp[r].idx > Len(vp[r].groups[vp[r].card])
  /\ LET due == OverdraftDue(vp[r].debitBalance, vp[r].debitCard, now)
         fee == createOverdraftFeeTransaction(vp[r].debitCard)
         created == due /\ fee.code = 200
         saved == created /\ ~saveFails
     IN /\ created => Len(txs) < MaxTx + MaxStaged
        /\ txs' = IF created THEN Append(txs, fee.tx) ELSE txs
        /\ cards' = IF saved
                    THEN [cards EXCEPT ![vp[r].card].lastOverdraftFee = now,
                                       ![vp[r].card].feeAt = now]
                    ELSE IF created THEN [cards EXCEPT ![vp[r].card].feeAt = now]
                    ELSE cards
        /\ res' = [op |-> "groupEnd", run |-> r, card |-> vp[r].card,
                   balance |-> vp[r].debitBalance.currentBalance,
                   lastOverdraftFee |-> vp[r].debitCard.lastOverdraftFee,
                   stored |-> cards[vp[r].card].lastOverdraftFee,
                   actual |-> TotalBalance(txs, vp[r].card),
                   start |-> vp[r].start,
                   persisted |-> vp[r].persisted \cap TxOfCard(txs, vp[r].card),
                   saved |-> saved,
                   fee |-> IF created THEN "created"
                           ELSE IF due THEN "failed" ELSE "none"]
        /\ vp' = [vp EXCEPT ![r].pc = "next",
                            ![r].fees = IF created THEN @ \cup {vp[r].card} ELSE @]
  /\ UNCHANGED <<now, doc, abi>>

\* the outer loop is exhausted: the invocation returns
VPFinish(r) ==
  /\ vp[r].pc = "next"
  /\ vp[r].remaining = {}
  /\ res' = [op |-> "validatePending", code |-> 200, early |-> FALSE, run |-> r,
             snap |-> vp[r].snap, tried |-> vp[r].tried,
             unwritten |-> vp[r].unwritten, skipped |-> vp[r].skipped,
             solvent |-> vp[r].solvent,
             fees |-> vp[r].fees]
  /\ vp' = [vp EXCEPT ![r] = VpIdle]
  /\ UNCHANGED <<txs, cards, now, doc, abi>>

\* ----------------------------------------------------- addBalanceInterest
InterestDue(s) ==
  {c \in Cards : Completed(s) \cap TxOfCard(s, c) # {} /\ TotalBalance(s, c) > 0}

\* the interest cut to 2 decimals instead of rounded
InterestTxTruncated(s, c) ==
  [type |-> "debit", subtype |-> "interest",
   amount |-> ((TotalBalance(s, c) * INTEREST_RATE) \div 1000) * 10,
   status |-> "completed", vender |-> "ONE", card |-> c, user |-> UserOf(c), ref |-> 0]

\* the document a 'data' event stages for the group of account c
InterestTx(s, c) ==
  [type |-> "debit", subtype |-> "interest",
   amount |-> RoundRate(TotalBalance(s, c), INTEREST_RATE),
   status |-> "completed", vender |-> "ONE", card |-> c, user |-> UserOf(c), ref |-> 0]

\* the orders in which the cursor may deliver the groups
Orders(S) ==
  {o \in [1..Cardinality(S) -> S] : \A i, j \in 1..Cardinality(S) : o[i] = o[j] => i = j}

\* The invocation: the aggregation cursor is opened, the three handlers are
\* registered and the async function returns; nothing inside the try block
\* awaits the stream, so the invocation resolves before any event.
AddBalanceInterest ==
  /\ NoRun
  /\ abi' = [pc |-> "streaming", at |-> <<>>, staged |-> <<>>]
  /\ res' = [op |-> "addBalanceInterest", code |-> 200]
  /\ UNCHANGED <<txs, cards, now, doc, vp>>

\* the cursor's events: one 'data' per group, in the order o the cursor
\* delivers them, each staging a document; or 'error', whose handler throws
\* outside any try block.  at is the collection as the aggregation read it.
InterestData(streamFails) ==
  /\ abi.pc = "streaming"
  /\ IF streamFails
     THEN /\ abi' = AbiIdle
          /\ res' = [op |-> "interestEnd", outcome |-> "uncaught", at |-> txs,
                     staged |-> <<>>, inserted |-> 0]
     ELSE /\ \E o \in Orders(InterestDue(txs)) :
               abi' = [pc |-> "end", at |-> txs,
                       staged |-> [i \in 1..Len(o) |-> InterestTx(txs, o[i])]]
          /\ res' = NoRes
  /\ UNCHANGED <<txs, cards, now, doc, vp>>

\* 'end': insertMany(transactions, { ordered: false }) when anything is
\* staged; a rejected insertMany rejects the handler's promise, which
\* nobody awaits.
InterestEnd(insertFails) ==
  /\ abi.pc = "end"
  /\ Len(txs) + Len(abi.staged) <= MaxTx + MaxStaged
  /\ txs' = IF abi.staged # <<>> /\ ~insertFails THEN txs \o abi.staged ELSE txs
  /\ res' = [op |-> "interestEnd",
             outcome |-> IF abi.staged = <<>> THEN "none"
                         ELSE IF insertFails THEN "unhandled" ELSE "inserted",
             at |-> abi.at, staged |-> abi.staged,
             inserted |-> Len(txs') - Len(txs)]
  /\ abi' = AbiIdle
  /\ UNCHANGED <<cards, now, doc, vp>>

\* --------------------------------------------------------- specifications
\* The ledger's operations.
Next ==
  \/ \E req \in LedgerRequests : Create(req)
  \/ \E req \in TransferRequests : CreateTransfer(req, 0)
  \/ \E c \in AccountNumbers : CreateOverdraftFee(c)
  \/ \E id \in 1..MaxTx : LoadTx(id)
  \/ Cancel
  \/ Refund
  \/ Cashback
  \/ \E c \in Cards : GetBalances(c)
  \/ AddBalanceInterest
  \/ InterestData(FALSE)
  \/ InterestEnd(FALSE)
  \/ \E r \in OneRun : VPStart(r)
  \/ \E r \in OneRun, c \in Cards : VPGroupBegin(r, c, FALSE)
  \/ \E r \in OneRun : VPSettle(r, FALSE)
  \/ \E r \in OneRun : VPGroupEnd(r, FALSE)
  \/ \E r \in OneRun : VPFinish(r)

Spec == Init /\ [][Next]_vars

\* Settlement runs between requests, account switches and the passing of time.
NextSettle ==
  \/ \E req \in SettleRequests : Create(req)
  \/ \E c \in AccountNumbers : CreateOverdraftFee(c)
  \/ \E c \in Switched : SetInactive(c)
  \/ Tick
  \/ \E r \in OneRun : VPStart(r)
  \/ \E r \in OneRun, c \in Cards : VPGroupBegin(r, c, FALSE)
  \/ \E r \in OneRun : VPSettle(r, FALSE)
  \/ \E r \in OneRun : VPGroupEnd(r, FALSE)
  \/ \E r \in OneRun : VPFinish(r)

SpecSettle == Init /\ [][NextSettle]_vars

\* Cancel requests interleaved with the steps of a settlement run.
NextCancel ==
  \/ \E req \in CancelRequests : Create(req)
  \/ \E id \in 1..MaxTx : LoadTx(id)
  \/ Cancel
  \/ \E r \in OneRun : VPStart(r)
  \/ \E r \in OneRun, c \in Cards : VPGroupBegin(r, c, FALSE)
  \/ \E r \in OneRun : VPSettle(r, FALSE)
  \/ \E r \in OneRun : VPGroupEnd(r, FALSE)
  \/ \E r \in OneRun : VPFinish(r)

SpecCancel == Init /\ [][NextCancel]_vars

\* Transaction.create called with bodies of every kind.
NextCreate ==
  \/ \E req \in CreateRequests : Create(req)
  \/ \E c \in Switched : SetActive(c)
  \/ \E c \in Switched : SetInactive(c)
  \/ \E r \in OneRun : VPStart(r)
  \/ \E r \in OneRun, c \in Cards : VPGroupBegin(r, c, FALSE)
  \/ \E r \in OneRun : VPSettle(r, FALSE)
  \/ \E r \in OneRun : VPGroupEnd(r, FALSE)
  \/ \E r \in OneRun : VPFinish(r)

SpecCreate == Init /\ [][NextCreate]_vars

\* The derived transactions of settled purchases, on accounts that are
\* switched off and on.
NextDerived ==
  \/ \E req \in DerivedRequests : Create(req)
  \/ \E c \in AccountNumbers : CreateOverdraftFee(c)
  \/ \E id \in 1..MaxTx : LoadTx(id)
  \/ Refund
  \/ Cashback
  \/ \E c \in Switched : SetActive(c)
  \/ \E c \in Switched : SetInactive(c)
  \/ \E r \in OneRun : VPStart(r)
  \/ \E r \in OneRun, c \in Cards : VPGroupBegin(r, c, FALSE)
  \/ \E r \in OneRun : VPSettle(r, FALSE)
  \/ \E r \in OneRun : VPGroupEnd(r, FALSE)
  \/ \E r \in OneRun : VPFinish(r)

SpecDerived == Init /\ [][NextDerived]_vars

\* The interest job and transfers on a storage that may reject a write.
NextJobs ==
  \/ \E req \in JobRequests : Create(req)
  \/ \E req \in JobTransfers, fault \in SaveFaults : CreateTransfer(req, fault)
  \/ AddBalanceInterest
  \/ \E streamFails \in BOOLEAN : InterestData(streamFails)
  \/ \E insertFails \in BOOLEAN : InterestEnd(insertFails)
  \/ \E r \in OneRun : VPStart(r)
  \/ \E r \in OneRun, c \in Cards : VPGroupBegin(r, c, FALSE)
  \/ \E r \in OneRun : VPSettle(r, FALSE)
  \/ \E r \in OneRun : VPGroupEnd(r, FALSE)
  \/ \E r \in OneRun : VPFinish(r)

SpecJobs == Init /\ [][NextJobs]_vars

\* The settlement job while the storage rejects a balance aggregation or a
\* status write.
FaultRequests ==
  { Req("withdrawal", "purchase", -150000, "amzn", "c1"),
    Req("debit", "credit", 100000, "SHOP", "c1"),
    Req("withdrawal", "purchase", -200, "SHOP", "c2") }

NextFaults ==
  \/ \E req \in FaultRequests : Create(req)
  \/ \E c \in Switched : CreateOverdraftFee(c)
  \/ Tick
  \/ \E r \in OneRun : VPStart(r)
  \/ \E r \in OneRun, c \in Cards, balanceFails \in BOOLEAN : VPGroupBegin(r, c, balanceFails)
  \/ \E r \in OneRun, updateFails \in BOOLEAN : VPSettle(r, updateFails)
  \/ \E r \in OneRun : VPGroupEnd(r, FALSE)
  \/ \E r \in OneRun : VPFinish(r)

SpecFaults == Init /\ [][NextFaults]_vars

\* Two invocations of the settlement job that the scheduler may start one
\* before the other has returned; requests arrive between the invocations.
OverlapRequests ==
  { Req("withdrawal", "purchase", -150000, "amzn", "c1"),
    Req("withdrawal", "purchase", -200, "SHOP", "c1") }

NextOverlap ==
  \/ \E req \in OverlapRequests : Create(req)
  \/ \E c \in Switched : CreateOverdraftFee(c)
  \/ Tick
  \/ \E r \in Runs : VPStart(r)
  \/ \E r \in Runs, c \in Cards : VPGroupBegin(r, c, FALSE)
  \/ \E r \in Runs : VPSettle(r, FALSE)
  \/ \E r \in Runs : VPGroupEnd(r, FALSE)
  \/ \E r \in Runs : VPFinish(r)

SpecOverlap == Init /\ [][NextOverlap]_vars

\* Queries on a ledger of two accounts, some of it settled.
FindRequests ==
  { Req("debit", "credit", 200, "SHOP", "c1"),
    Req("withdrawal", "purchase", -200, "SHOP", "c2") }

NextFind ==
  \/ \E req \in FindRequests : Create(req)
  \/ \E q \in FindQueries : FindTransactions(q)
  \/ \E r \in OneRun : VPStart(r)
  \/ \E r \in OneRun, c \in Cards : VPGroupBegin(r, c, FALSE)
  \/ \E r \in OneRun : VPSettle(r, FALSE)
  \/ \E r \in OneRun : VPGroupEnd(r, FALSE)
  \/ \E r \in OneRun : VPFinish(r)

SpecFind == Init /\ [][NextFind]_vars

\* The account switch of both accounts over time, next to the fee, which
\* also saves the account.
NextAudit ==
  \/ \E c \in Cards : SetActive(c)
  \/ \E c \in Cards : SetInactive(c)
  \/ \E c \in Switched : CreateOverdraftFee(c)
  \/ Tick

SpecAudit == Init /\ [][NextAudit]_vars

\* The overdraft fee on an account that has been charged before and comes
\* back to a balance of zero, while the storage may reject the save of the
\* account.
FeeRequests ==
  { Req("debit", "credit", 10000, "SHOP", "c1"),
    Req("withdrawal", "purchase", -200, "AMZN", "c1") }

NextFee ==
  \/ \E req \in FeeRequests : Create(req)
  \/ \E c \in Switched : CreateOverdraftFee(c)
  \/ Tick
  \/ \E r \in OneRun : VPStart(r)
  \/ \E r \in OneRun, c \in Cards : VPGroupBegin(r, c, FALSE)
  \/ \E r \in OneRun : VPSettle(r, FALSE)
  \/ \E r \in OneRun, saveFails \in BOOLEAN : VPGroupEnd(r, saveFails)
  \/ \E r \in OneRun : VPFinish(r)

SpecFee == Init /\ [][NextFee]_vars

\* The interest job on accounts that are switched off and on.
InactiveRequests ==
  { Req("debit", "credit", 5600, "SHOP", "c1"),
    Req("withdrawal", "purchase", -200, "SHOP", "c2") }

NextInactive ==
  \/ \E req \in InactiveRequests : Create(req)
  \/ \E c \in Switched : SetActive(c)
  \/ \E c \in Switched : SetInactive(c)
  \/ AddBalanceInterest
  \/ InterestData(FALSE)
  \/ InterestEnd(FALSE)
  \/ \E r \in OneRun : VPStart(r)
  \/ \E r \in OneRun, c \in Cards : VPGroupBegin(r, c, FALSE)
  \/ \E r \in OneRun : VPSettle(r, FALSE)
  \/ \E r \in OneRun : VPGroupEnd(r, FALSE)
  \/ \E r \in OneRun : VPFinish(r)

SpecInactive == Init /\ [][NextInactive]_vars

\* ------------------------------------------------------------- properties
\* the transactions of account c with status st, summed in insertion order
RECURSIVE SumUpTo(_, _, _)
SumUpTo(n, c, st) ==
  IF n = 0 THEN 0
  ELSE SumUpTo(n - 1, c, st)
       + (IF txs[n].card = c /\ txs[n].status = st THEN txs[n].amount ELSE 0)

\* the cashback transactions that reference transaction id
CashbackFor(id) ==
  {j \in DOMAIN txs : txs[j].subtype = "cashback" /\ txs[j].ref = id}

\* the vendor names in use that are cashback-eligible whatever their case
EligibleNames == {"WLMRT", "AMZN", "APPL", "wlmrt", "amzn", "appl"}

\* C1: a pending withdrawal that would take the running balance below
\* MAX_NEGATIVE_BALANCE is set to failed and leaves the running balance
\* unchanged; every other pending withdrawal is set to completed and its
\* amount is added to the running balance.
C1_FloorRule ==
  (res.op = "settle" /\ txs[res.id].type = "withdrawal") =>
    IF res.before + txs[res.id].amount < MAX_NEGATIVE_BALANCE
    THEN res.status = "failed" /\ res.after = res.before
    ELSE res.status = "completed" /\ res.after = res.before + txs[res.id].amount

\* C2: once the persisted status of a transaction is completed, failed or
\* canceled, no step of cancel() or of validatePending changes it.
C2_TerminalIsFinal ==
  [][\A i \in DOMAIN txs : txs[i].status # "pending" => txs'[i].status = txs[i].status]_vars

\* C3: when a validatePending invocation returns, every transaction that was
\* pending when the invocation enumerated the pending work is completed or
\* failed.
C3_NonePending ==
  (res.op = "validatePending" /\ ~res.early) =>
    \A id \in res.snap : txs[id].status \in {"completed", "failed"}

\* C4: settling a transaction creates a cashback for it if and only if the
\* transaction is a withdrawal of subtype purchase that the run settles to
\* completed and whose vendor is, whatever its case, WLMRT, AMZN or APPL.
C4_CashbackIff ==
  res.op = "settle" =>
    LET t == txs[res.id]
        eligible == /\ t.type = "withdrawal"
                    /\ t.subtype = "purchase"
                    /\ res.written
                    /\ t.status = "completed"
                    /\ t.vender \in EligibleNames
    IN /\ res.cashback = "created" <=> eligible
       /\ Cardinality(CashbackFor(res.id)) = IF eligible THEN 1 ELSE 0

C4_Witness ==
  /\ res.op = "settle"
  /\ res.cashback = "created"
  /\ txs[res.id].vender = "amzn"
  /\ CashbackFor(res.id) # {}

\* C5: at the end of an account's group an overdraft fee is created if and
\* only if the running balance is negative and the account has never been
\* charged a fee or was last charged more than FIVE_DAYS ago.
C5_OverdraftIff ==
  res.op = "groupEnd" =>
    (res.fee = "created" <=>
       /\ res.balance < 0
       /\ \/ res.lastOverdraftFee = 0
          \/ now - res.lastOverdraftFee > FIVE_DAYS)

\* C6: every persisted debit has an amount > 0 and every persisted withdrawal
\* an amount < 0, each with at most 2 decimals.
C6_SignAndPrecision ==
  \A i \in DOMAIN txs :
    /\ txs[i].type = "debit" => txs[i].amount > 0
    /\ txs[i].type = "withdrawal" => txs[i].amount < 0
    /\ txs[i].amount % 10 = 0

\* C7: getBalances() succeeds for every account, also one without
\* transactions, and returns finalBalance = currentBalance + pendingBalance.
C7_BalancesSucceed ==
  res.op = "getBalances" =>
    /\ res.balances.code = 200
    /\ res.balances.finalBalance = res.balances.currentBalance + res.balances.pendingBalance

\* C8: getBalances() returns the sum of the account's completed transactions
\* as currentBalance and the sum of its pending ones as pendingBalance;
\* failed and canceled transactions and other accounts contribute nothing.
C8_BalancesAreSums ==
  res.op = "getBalances" =>
    /\ res.balances.code = 200
    /\ res.balances.currentBalance = SumUpTo(Len(txs), res.card, "completed")
    /\ res.balances.pendingBalance = SumUpTo(Len(txs), res.card, "pending")

\* C9: cancel() on a document whose status is pending persists the status
\* canceled; on a document whose status is completed, failed or canceled it
\* fails with a 400 error and leaves the persisted status as it was.
C9_CancelOnlyPending ==
  res.op = "cancel" =>
    IF res.was = "pending"
    THEN res.code = 200 /\ txs[res.id].status = "canceled"
    ELSE res.code = 400 /\ txs[res.id].status = res.stored

C9_Witness ==
  /\ res.op = "cancel"
  /\ res.was = "completed"
  /\ res.code = 400
  /\ txs[res.id].status = "completed"

\* C10: createRefundTransaction and createCashbackTransaction on a source
\* that is not at once completed, a withdrawal and a purchase fail with a 400
\* error and create no transaction.
C10_NeedsCompletedPurchase ==
  (/\ res.op \in {"refund", "cashback"}
   /\ ~(/\ res.src.status = "completed"
        /\ res.src.type = "withdrawal"
        /\ res.src.subtype = "purchase")) =>
    /\ res.code = 400
    /\ res.inserted = 0

C10_Witness ==
  /\ res.op = "refund"
  /\ res.src.status = "pending"
  /\ res.src.subtype = "purchase"
  /\ res.code = 400

\* |x|
Size(x) == IF x < 0 THEN 0 - x ELSE x

\* a is m * 0.01 rounded to 2 decimals (a and m in thousandths)
IsRoundedPercent(a, m) == a % 10 = 0 /\ m - 100 * a >= -500 /\ m - 100 * a < 500

\* the source of the last refund or cashback call is a completed purchase
OnCompletedPurchase ==
  /\ res.src.status = "completed"
  /\ res.src.type = "withdrawal"
  /\ res.src.subtype = "purchase"

\* the last call persisted one cashback for its source and returned it
CashbackPersisted ==
  /\ res.code = 200
  /\ res.inserted = 1
  /\ LET t == txs[Len(txs)]
     IN /\ t.type = "debit"
        /\ t.subtype = "cashback"
        /\ t.status = "completed"
        /\ t.vender = "ONE"
        /\ t.card = res.src.card
        /\ t.ref = res.id
        /\ IsRoundedPercent(t.amount, Size(res.src.amount))

\* C11: createCashbackTransaction on a completed withdrawal/purchase persists
\* exactly one transaction and returns it: a debit of subtype cashback,
\* status completed, vendor ONE, on the source's account, of amount
\* round(|source amount| * 0.01, 2 decimals), referencing the source's id.
C11_CashbackShape ==
  (res.op = "cashback" /\ OnCompletedPurchase) => CashbackPersisted

\* C11 as amended: the same, for a source whose account is active and
\* whose rounded cashback is positive.
C11_CashbackShapeActive ==
  (/\ res.op = "cashback"
   /\ OnCompletedPurchase
   /\ cards[res.src.card].active
   /\ Size(res.src.amount) >= 500) => CashbackPersisted

C11_Witness ==
  /\ res.op = "cashback"
  /\ res.code = 200
  /\ res.src.amount = -2600
  /\ txs[Len(txs)].amount = 30

\* the last call persisted one refund for its source
RefundPersisted ==
  /\ res.code = 200
  /\ res.inserted = 1
  /\ LET t == txs[Len(txs)]
     IN /\ t.type = "debit"
        /\ t.subtype = "refund"
        /\ t.amount = Size(res.src.amount)
        /\ t.vender = res.src.vender
        /\ t.card = res.src.card
        /\ t.ref = res.id

\* C12: createRefundTransaction on a completed withdrawal/purchase persists
\* exactly one transaction: a debit of subtype refund, of amount
\* |original amount|, with the original's vendor and account, referencing
\* the original's id.
C12_RefundShape ==
  (res.op = "refund" /\ OnCompletedPurchase) => RefundPersisted

\* C12 as amended: the same, for an original whose account is active.
C12_RefundShapeActive ==
  (/\ res.op = "refund"
   /\ OnCompletedPurchase
   /\ cards[res.src.card].active) => RefundPersisted

C12_Witness ==
  /\ res.op = "refund"
  /\ res.code = 200
  /\ res.src.amount = -2600
  /\ txs[Len(txs)].subtype = "refund"
  /\ txs[Len(txs)].amount = 2600

\* a body the validation of create has to refuse
BadBody(b) ==
  \/ b.type \notin {"debit", "withdrawal"}
  \/ b.type = "debit" /\ b.subtype \notin {"credit", "refund", "interest", "cashback"}
  \/ b.type = "withdrawal" /\ b.subtype \notin {"purchase", "fee", "transfer"}
  \/ b.amountType # "number"
  \/ b.type = "debit" /\ b.amount <= 0
  \/ b.type = "withdrawal" /\ b.amount >= 0
  \/ b.amount % 10 # 0
  \/ b.venderType # "string"
  \/ b.descriptionType \notin {"undefined", "string"}

\* C13: Transaction.create fails with a 400 error and persists nothing when
\* the type is not debit or withdrawal, the subtype is not one of the type's,
\* the amount is not a number of the type's sign with at most 2 decimals,
\* the vendor is not a string, or a description is given that is not a
\* string.
C13_BadBodyRejected ==
  (res.op = "create" /\ BadBody(res.req)) => (res.code = 400 /\ res.inserted = 0)

C13_Witness ==
  /\ res.op = "create"
  /\ res.req.venderType = "number"
  /\ res.req.amountType = "number"
  /\ cards[res.req.accountNumber].active
  /\ res.code = 400
  /\ res.inserted = 0

\* C14: Transaction.create fails with a 400 error and persists nothing when
\* the account it resolves (from an account number, from the account id of a
\* source transaction, or from an account document) does not exist or is
\* inactive.
C14_AccountRequired ==
  /\ (res.op = "create" /\ (res.req.accountNumber \notin Cards
                             \/ ~cards[res.req.accountNumber].active))
       => (res.code = 400 /\ res.inserted = 0)
  /\ (res.op \in {"refund", "cashback"} /\ ~cards[res.src.card].active)
       => (res.code = 400 /\ res.inserted = 0)
  /\ (res.op = "overdraftFee" /\ (res.card \notin Cards \/ ~cards[res.card].active))
       => (res.code = 400 /\ res.inserted = 0)

C14_Witness ==
  /\ res.op = "refund"
  /\ OnCompletedPurchase
  /\ ~cards[res.src.card].active
  /\ res.code = 400
  /\ res.inserted = 0

\* the amounts of the first n transactions of s on account c with status st
RECURSIVE SumOf(_, _, _, _)
SumOf(s, n, c, st) ==
  IF n = 0 THEN 0
  ELSE SumOf(s, n - 1, c, st)
       + (IF s[n].card = c /\ s[n].status = st THEN s[n].amount ELSE 0)

\* the final balance of account c before the last operation's insertions
FinalBefore(c) ==
  SumOf(txs, Len(txs) - res.inserted, c, "completed")
  + SumOf(txs, Len(txs) - res.inserted, c, "pending")

\* C15: with both accounts existing and active, a positive amount of at most
\* 2 decimals and a sender's final balance of at least the amount,
\* createTransferTransaction persists exactly two transactions, in this
\* order: a pending withdrawal of subtype transfer of -amount on the sender's
\* account, then a pending debit of subtype credit of +amount on the
\* receiver's account.
C15_TransferPair ==
  (/\ res.op = "transfer"
   /\ res.req.senderAccountNumber \in Cards
   /\ res.req.receiverAccountNumber \in Cards
   /\ cards[res.req.senderAccountNumber].active
   /\ cards[res.req.receiverAccountNumber].active
   /\ res.req.amount > 0
   /\ res.req.amount % 10 = 0
   /\ FinalBefore(res.req.senderAccountNumber) >= res.req.amount) =>
    /\ res.code = 200
    /\ res.inserted = 2
    /\ LET w == txs[Len(txs) - 1]
           d == txs[Len(txs)]
       IN /\ w.type = "withdrawal" /\ w.subtype = "transfer" /\ w.status = "pending"
          /\ w.amount = 0 - res.req.amount
          /\ w.card = res.req.senderAccountNumber
          /\ d.type = "debit" /\ d.subtype = "credit" /\ d.status = "pending"
          /\ d.amount = res.req.amount
          /\ d.card = res.req.receiverAccountNumber

C15_Witness ==
  /\ res.op = "transfer"
  /\ res.code = 200
  /\ res.req.senderAccountNumber = "c1"
  /\ res.req.receiverAccountNumber = "c2"
  /\ FinalBefore("c1") = res.req.amount
  /\ txs[Len(txs)].card = "c2"

\* C16: createTransferTransaction fails with the 400 error of insufficient
\* funds and creates no transaction whenever the final balance of an active
\* sender is less than the amount, also for a sender without transactions.
C16_InsufficientFunds ==
  (/\ res.op = "transfer"
   /\ res.req.senderAccountNumber \in Cards
   /\ res.req.receiverAccountNumber \in Cards
   /\ cards[res.req.senderAccountNumber].active
   /\ cards[res.req.receiverAccountNumber].active
   /\ res.req.amount > 0
   /\ FinalBefore(res.req.senderAccountNumber) < res.req.amount) =>
    (res.code = 400 /\ res.inserted = 0)

\* C17: createTransferTransaction returns successfully only after persisting
\* both transactions; when it has persisted one of them only, it has raised
\* an error.
C17_PairOrError ==
  res.op = "transfer" =>
    /\ res.code = 200 => res.inserted = 2
    /\ res.inserted = 1 => res.code # 200

C17_Witness ==
  /\ res.op = "transfer"
  /\ res.inserted = 1
  /\ res.code = 500
  /\ txs[Len(txs)].subtype = "transfer"

\* the last call persisted one fee on its account and stamped the account
FeePersisted ==
  /\ res.code = 200
  /\ res.inserted = 1
  /\ LET t == txs[Len(txs)]
     IN /\ t.type = "withdrawal"
        /\ t.subtype = "fee"
        /\ t.amount = -10000
        /\ t.vender = "ONE"
        /\ t.status = "completed"
        /\ t.card = res.card
  /\ cards[res.card].lastOverdraftFee = now

\* C18: createOverdraftFeeTransaction(account) persists one withdrawal of
\* subtype fee, amount -10, vendor ONE, status completed on the account and
\* sets the account's lastOverdraftFee to the current time; without an
\* account it fails with a 400 error and persists nothing.
C18_FeeShape ==
  res.op = "overdraftFee" =>
    IF res.card \in Cards THEN FeePersisted
    ELSE res.code = 400 /\ res.inserted = 0

\* C18 as amended: the same, for an account that is active.
C18_FeeShapeActive ==
  res.op = "overdraftFee" =>
    IF res.card \in Cards
    THEN cards[res.card].active => FeePersisted
    ELSE res.code = 400 /\ res.inserted = 0

C18_Witness ==
  /\ res.op = "overdraftFee"
  /\ res.code = 200
  /\ now > 1
  /\ cards[res.card].lastOverdraftFee = now
  /\ txs[Len(txs)].subtype = "fee"

\* the transactions the last step of the interest job inserted for account c
InsertedFor(c) ==
  {j \in (Len(txs) - res.inserted + 1)..Len(txs) : txs[j].card = c}

\* C19: one run of addBalanceInterest inserts, for each user whose completed
\* transactions sum to a total > 0, exactly one debit of subtype interest,
\* status completed, amount round(total * 0.01, 2 decimals), owned by the
\* user and on the user's account; for any other user none; and it issues no
\* insert when no user has such a total.
C19_InterestPerUser ==
  (res.op = "interestEnd" /\ res.outcome \in {"inserted", "none"}) =>
    /\ \A c \in Cards :
         LET total == SumOf(res.at, Len(res.at), c, "completed")
         IN IF total > 0
            THEN /\ Cardinality(InsertedFor(c)) = 1
                 /\ \A j \in InsertedFor(c) :
                      /\ txs[j].type = "debit"
                      /\ txs[j].subtype = "interest"
                      /\ txs[j].status = "completed"
                      /\ txs[j].user = UserOf(c)
                      /\ IsRoundedPercent(txs[j].amount, total)
            ELSE InsertedFor(c) = {}
    /\ res.outcome = "none" <=>
         \A c \in Cards : SumOf(res.at, Len(res.at), c, "completed") <= 0

C19_Witness ==
  /\ res.op = "interestEnd"
  /\ res.outcome = "inserted"
  /\ res.inserted = 2
  /\ \E j \in InsertedFor("c2") : txs[j].amount = 60
  /\ \E j \in InsertedFor("c1") : txs[j].amount = 1000

\* C20: an invocation of addBalanceInterest does not complete successfully
\* before its insert has been attempted and has succeeded, and a failure of
\* the stream or of the insert is a failure of the invocation, never an
\* error outside it.
C20_FailureSurfaces ==
  /\ (res.op = "addBalanceInterest" /\ res.code = 200) => abi.pc = "idle"
  /\ res.op = "interestEnd" => res.outcome \in {"inserted", "none"}

\* the operations whose outcome reaches their caller as a code
Surfacing ==
  {"create", "transfer", "overdraftFee", "cashback", "refund", "cancel",
   "getBalances", "validatePending", "addBalanceInterest"}

\* C22: every failure that create, the derived creations, cancel,
\* getBalances, validatePending and addBalanceInterest surface is a
\* HandledError of code 400 or 500, and no storage error or unexpected
\* exception is surfaced raw or left unhandled.
C22_FailuresAreHandled ==
  /\ res.op \in Surfacing => res.code \in {200, 400, 500}
  /\ res.op = "interestEnd" => res.outcome \notin {"unhandled", "uncaught"}

\* C23: in validatePending every pending debit is set to completed whatever
\* the running balance is, its amount is added to the running balance that the
\* later transactions of the group use, and settling it creates no cashback,
\* even at a cashback-eligible vendor.
C23_DebitCompleted ==
  (res.op = "settle" /\ txs[res.id].type = "debit") =>
    /\ res.status = "completed"
    /\ res.written
    /\ txs[res.id].status = "completed"
    /\ res.after = res.before + txs[res.id].amount
    /\ vp[res.run].debitBalance.currentBalance = res.after
    /\ res.cashback = "none"
    /\ CashbackFor(res.id) = {}

\* a debit at an eligible vendor is settled while the running balance is
\* negative
C23_Witness ==
  /\ res.op = "settle"
  /\ txs[res.id].type = "debit"
  /\ ToUpperCase(txs[res.id].vender) \in CASHBACK_VENDERS
  /\ res.before < 0
  /\ txs[res.id].status = "completed"

\* C25: when creating the cashback of a withdrawal fails during
\* validatePending, the withdrawal's settlement is neither rolled back nor
\* skipped: the step still persists its status as completed.
C25_SettledDespiteCashbackFailure ==
  (res.op = "settle" /\ res.cashback = "failed") =>
    /\ res.status = "completed"
    /\ res.written
    /\ txs[res.id].status = "completed"

\* the step has taken, of its account's transactions in the run's snapshot,
\* exactly those that are not younger than the one it settles
OldestFirst ==
  \A j \in vp[res.run].snap :
    txs[j].card = txs[res.id].card => (j \in vp[res.run].tried <=> j <= res.id)

\* C24: within one validatePending run the pending transactions of an
\* account are evaluated, and their status writes issued, oldest first, and
\* each decision uses the running balance left by the earlier transactions
\* of the account in the run.
C24_OldestFirstOnRunningBalance ==
  res.op = "settle" =>
    /\ OldestFirst
    /\ txs[res.id].type = "withdrawal" =>
         (res.status = "failed" <=> res.before + txs[res.id].amount < MAX_NEGATIVE_BALANCE)

\* C26: when persisting the status of one transaction fails in
\* validatePending, that transaction stays pending, the transactions after
\* it in its account and the other accounts are still processed in the run,
\* and the invocation does not raise.
C26_WriteFailureIsLocal ==
  /\ (res.op = "settle" /\ res.updateFailed) => txs[res.id].status = "pending"
  /\ (res.op = "validatePending" /\ ~res.early) =>
       /\ res.code = 200
       /\ \A id \in res.snap : id \in res.tried \/ txs[id].card \in res.skipped
       /\ \A id \in res.snap \ res.unwritten :
            (id \in res.tried /\ ~IsCashbackVender(txs[id].vender))
              => txs[id].status \in {"completed", "failed"}

\* a run has returned normally after the oldest write of an account failed:
\* the younger transaction of the account and the other account are settled
C26_Witness ==
  /\ res.op = "validatePending"
  /\ ~res.early
  /\ res.code = 200
  /\ res.unwritten = {1}
  /\ res.tried = {1, 2, 3}
  /\ txs[1].status = "pending"
  /\ txs[2].status = "completed" /\ txs[2].card = txs[1].card
  /\ txs[3].status = "completed" /\ txs[3].card # txs[1].card

\* C27: when computing an account's balances fails in validatePending, no
\* transaction of that account changes status in that run, no cashback or
\* overdraft fee is created for it, and the other accounts of the batch are
\* still processed.
C27_BalanceFailureSkipsGroup ==
  [][/\ \A r \in OneRun : \A c \in vp[r].skipped :
          /\ cards'[c] = cards[c]
          /\ \A i \in DOMAIN txs' :
               txs'[i].card = c => (i \in DOMAIN txs /\ txs'[i] = txs[i])
     /\ (res'.op = "validatePending" /\ ~res'.early) =>
          \A id \in res'.snap : id \in res'.tried <=> txs[id].card \notin res'.skipped]_vars

\* a run has skipped an account that owes a fee and holds a purchase at an
\* eligible vendor, and has settled the other account
C27_Witness ==
  /\ res.op = "validatePending"
  /\ ~res.early
  /\ res.skipped = {"c1"}
  /\ res.tried # {}
  /\ \E id \in res.snap :
       /\ txs[id].card = "c1" /\ txs[id].status = "pending"
       /\ IsCashbackVender(txs[id].vender)
  /\ \E id \in res.tried : txs[id].status = "completed"
  /\ cards["c1"].lastOverdraftFee # 0
  /\ now - cards["c1"].lastOverdraftFee > FIVE_DAYS

\* C28: when no transaction is pending, validatePending returns without
\* running the grouping aggregation, loading an account or writing anything:
\* no transaction, status, cashback, overdraft fee or lastOverdraftFee
\* changes.
C28_ShortCircuit ==
  [][(/\ Pending(txs) = {}
      /\ \A r \in Runs : vp[r].pc = "idle"
      /\ res'.op = "validatePending")
     => (/\ res'.early
         /\ res'.code = 200
         /\ txs' = txs
         /\ cards' = cards
         /\ vp' = vp)]_vars

\* an invocation has returned early on a ledger that holds transactions
C28_Witness ==
  /\ res.op = "validatePending"
  /\ res.early
  /\ txs # <<>>
  /\ Pending(txs) = {}

\* a body with valid parameters (vendor a non-empty string) that names an
\* existing account which is active in the accounts cs
GoodBody(b, cs) ==
  /\ ~BadBody(b)
  /\ b.vender # ""
  /\ b.accountNumberType = "string"
  /\ b.accountNumber \in Cards
  /\ cs[b.accountNumber].active

\* C29: Transaction.create with valid parameters and an existing active
\* account returns a pending transaction that references the resolved
\* account and its owner, and persists exactly that transaction once; with
\* skipSave it writes nothing at all.
C29_CreateOnceOrDeferred ==
  [][(res'.op = "create" /\ GoodBody(res'.req, cards)) =>
       /\ res'.code = 200
       /\ res'.tx.status = "pending"
       /\ res'.tx.card = res'.req.accountNumber
       /\ res'.tx.user = UserOf(res'.req.accountNumber)
       /\ res'.tx.type = res'.req.type
       /\ res'.tx.amount = res'.req.amount
       /\ cards' = cards
       /\ IF res'.req.skipSave
          THEN txs' = txs /\ res'.inserted = 0
          ELSE txs' = Append(txs, res'.tx) /\ res'.inserted = 1]_vars

\* a deferred create has returned a transaction next to a saved one
C29_Witness ==
  /\ res.op = "create"
  /\ res.req.skipSave
  /\ GoodBody(res.req, cards)
  /\ res.code = 200
  /\ res.inserted = 0
  /\ Len(txs) = 1
  /\ txs[1].status = "pending"
  /\ txs[1].user = UserOf(txs[1].card)

\* C30: Transaction.create rejects with a 400 error, and persists nothing
\* for, a vendor that is not a non-empty string, the empty string included.
C30_EmptyVenderRejected ==
  (res.op = "create" /\ (res.req.venderType # "string" \/ res.req.vender = "")) =>
    (res.code = 400 /\ res.inserted = 0)

\* C21: validatePending is safely re-entrant: when a second invocation
\* starts before the first has returned, the stored state is one that the
\* two invocations could have produced one after the other; in particular
\* no purchase has two cashback transactions and no account is charged an
\* overdraft fee within FIVE_DAYS of its last one.
C21_Reentrant ==
  /\ \A id \in DOMAIN txs : Cardinality(CashbackFor(id)) <= 1
  /\ (res.op = "groupEnd" /\ res.fee = "created") => now - res.stored > FIVE_DAYS

\* a query without transactionId that the filter tests have to refuse
BadFilters(q) ==
  \/ q.debitCardId # "" /\ q.accountNumber # ""
  \/ q.startDate = -1
  \/ q.endDate = -1
  \/ q.startDate > 0 /\ q.endDate > 0 /\ q.startDate > q.endDate

\* C31: findTransactions given a transactionId ignores every other filter
\* and returns a list of zero or one transaction, the one of that id (a 400
\* error if the id is malformed); without an id, both debitCardId and
\* accountNumber, an invalid startDate or endDate, or a startDate after the
\* endDate fail with a 400 error and return no transaction.
C31_FindByIdOrFilters ==
  res.op = "findTransactions" =>
    IF res.q.transactionId # 0
    THEN IF res.q.transactionId = -1
         THEN res.code = 400 /\ res.results = <<>>
         ELSE /\ res.code = 200
              /\ res.results = IF res.q.transactionId \in DOMAIN txs
                               THEN <<res.q.transactionId>> ELSE <<>>
    ELSE BadFilters(res.q) => (res.code = 400 /\ res.results = <<>>)

\* a query by id with contradictory filters has returned its transaction,
\* which none of the filters matches
C31_Witness ==
  /\ res.op = "findTransactions"
  /\ res.q.transactionId = 2
  /\ BadFilters(res.q)
  /\ res.code = 200
  /\ res.results = <<2>>
  /\ ~Matches(res.q, txs[2], 2)

\* C32: setActive on an active account and setInactive on an inactive one
\* change nothing and append no audit entry; a call that flips the flag
\* appends exactly one entry (timestamp, actor, action) and leaves the
\* existing entries as they are, and no other step touches the log, so the
\* log holds one entry per flip.
C32_AuditTrail ==
  [][\A c \in Cards :
       /\ (res'.op \in {"setActive", "setInactive"} /\ res'.card = c
             /\ res'.was = (res'.op = "setActive")) => cards' = cards
       /\ cards'[c].active = cards[c].active => cards'[c].auditLog = cards[c].auditLog
       /\ cards'[c].active # cards[c].active =>
            /\ res'.op = (IF cards'[c].active THEN "setActive" ELSE "setInactive")
            /\ cards'[c].auditLog =
                 Append(cards[c].auditLog, AuditEntry(now, "user", res'.op))
       /\ cards'[c].active <=> Len(cards'[c].auditLog) % 2 = 0]_vars

\* an account was switched off and, later, on again, and a repeated setActive
\* has left the two entries alone
C32_Witness ==
  /\ res.op = "setActive"
  /\ res.was
  /\ Len(cards[res.card].auditLog) = 2
  /\ cards[res.card].auditLog[1].action = "setInactive"
  /\ cards[res.card].auditLog[2].action = "setActive"
  /\ cards[res.card].auditLog[1].timestamp < cards[res.card].auditLog[2].timestamp
  /\ cards[res.card].lastOverdraftFee # 0

\* the sender's transaction of every transfer pair in the ledger: the
\* receiver's credit is the transaction created right after it
TransferPairs ==
  {i \in DOMAIN txs :
     /\ txs[i].subtype = "transfer" /\ txs[i].vender = "SELF"
     /\ i + 1 \in DOMAIN txs
     /\ txs[i + 1].subtype = "credit" /\ txs[i + 1].vender = "SELF"}

\* C33: for every transfer created by createTransferTransaction the
\* receiver's credit is never completed unless the sender's withdrawal is
\* completed; after a canceled or failed withdrawal the receiver's completed
\* balance does not hold the transfer amount.
C33_CreditFollowsWithdrawal ==
  \A i \in TransferPairs :
    txs[i + 1].status = "completed" => txs[i].status = "completed"

\* the same on the final outcome only: a canceled or failed withdrawal next
\* to a completed credit
C33_CanceledButCredited ==
  \E i \in TransferPairs :
    txs[i].status \in {"canceled", "failed"} /\ txs[i + 1].status = "completed"

\* C34: for every withdrawal/purchase at most one cashback transaction that
\* references it ever exists, across any sequence of validatePending runs
\* that do not overlap, also when persisting the purchase's completed status
\* fails after its cashback has been created.
C34_OneCashbackPerPurchase ==
  \A id \in DOMAIN txs :
    (txs[id].type = "withdrawal" /\ txs[id].subtype = "purchase")
      => Cardinality(CashbackFor(id)) <= 1

\* C35: every account whose completed balance is at least
\* MAX_NEGATIVE_BALANCE before a validatePending run has a completed balance
\* of at least MAX_NEGATIVE_BALANCE after it, the fees of the run included.
C35_FloorKept ==
  (res.op = "validatePending" /\ ~res.early) =>
    \A c \in res.solvent : TotalBalance(txs, c) >= MAX_NEGATIVE_BALANCE

\* C36: at the end of an account's group in validatePending the running
\* balance the overdraft decision uses is the balance snapshot plus the
\* amounts of exactly the group's transactions whose completed status was
\* persisted; a transaction that stays pending because its status write or
\* its cashback failed adds nothing to it.
C36_RunningBalanceIsPersisted ==
  res.op = "groupEnd" => res.balance = res.start + SumAmounts(txs, res.persisted)

\* C37: validatePending charges an overdraft fee to an account only if the
\* account's actual completed balance at that moment, what getBalances would
\* return as currentBalance with the cashbacks of the run included, is
\* negative.
C37_FeeOnlyWhenOverdrawn ==
  (res.op = "groupEnd" /\ res.fee = "created") => res.actual < 0

\* the refunds that reference transaction id
RefundsOf(id) ==
  {j \in DOMAIN txs : txs[j].subtype = "refund" /\ txs[j].ref = id}

\* C38: for every completed purchase at most one refund referencing it is
\* ever created: a second createRefundTransaction on the same transaction
\* creates nothing, and the amount refunded never exceeds |original amount|.
C38_OneRefundPerPurchase ==
  \A id \in DOMAIN txs : Cardinality(RefundsOf(id)) <= 1

\* this step is validatePending persisting an overdraft fee on account c
FeeCharged(c) ==
  /\ res'.op = "groupEnd"
  /\ res'.card = c
  /\ res'.fee = "created"

\* C39: any two overdraft fee transactions of an account are created more
\* than 5 days apart and the account's lastOverdraftFee never decreases,
\* over any sequence of validatePending runs that do not overlap, also when
\* the save of the account's lastOverdraftFee fails after the fee was saved.
C39_FeesFiveDaysApart ==
  [][\A c \in Cards :
       /\ cards'[c].lastOverdraftFee >= cards[c].lastOverdraftFee
       /\ (FeeCharged(c) /\ cards[c].feeAt # 0) => now - cards[c].feeAt > FIVE_DAYS]_vars

\* the transactions this step inserts
Inserted == {i \in DOMAIN txs' : i > Len(txs)}

\* C40: no transaction is ever inserted on an inactive account: whatever
\* operation inserts (create, transfer, refund, cashback, overdraft fee,
\* interest accrual), the account's active flag is true at that time.
C40_InsertOnlyOnActive ==
  [][\A i \in Inserted : cards[txs'[i].card].active]_vars

====
